---- MODULE Spec2Model ----
(***************************************************************************)
(* Eagle Bank backend: the account/transaction services running as         *)
(* concurrent requests over the single shared sqlite3 connection `db`.     *)
(*                                                                         *)
(* Every `await` of a database call is one step of a request: the          *)
(* statement runs on the shared connection and the handler continues,      *)
(* synchronously, up to the next database call it issues.  Statements of   *)
(* different requests interleave freely on the one connection.             *)
(*                                                                         *)
(* Amounts and balances are counted in pence (units of 0.01).              *)
(***************************************************************************)
EXTENDS Integers, Sequences, FiniteSets, TLC

\* ------------------------------------------------------------------ bounds
NumProcs == 2
MaxReqs == 2
MaxClock == 1

\* In pence: the documented ceiling of a balance, and the smallest and largest amount the
\* request schema lets through.
MaxBalance == 1000000
MinAmount == 1
MaxAmount == 1000000

Procs == 1..NumProcs
Users == {"usr-a", "usr-b"}
AcctNums == {"01000001", "01000002"}
TxIds == {"tan-1", "tan-2"}
Amounts == {1, 2}
Names == {"main", "spare"}
References == {""}
AccountTypes == {"personal", "business"}
TransactionTypes == {"deposit", "withdrawal"}

\* ------------------------------------------------------------------- state
VARIABLES
  users,      \* rows of table users, keyed by id, as the connection sees them
  accounts,   \* rows of table bank_accounts, keyed by accountNumber
  ledger,     \* rows of table transactions, in insertion order
  hasLedger,  \* whether the database file holds a table `transactions`
  jwtSecret,  \* whether the process environment holds a JWT_SECRET
  inTx,       \* the connection has an open BEGIN TRANSACTION
  saved,      \* the store as it was at that BEGIN (what ROLLBACK restores)
  clock,      \* the wall clock read by new Date()
  pc,         \* per request slot: the database call being awaited
  req,        \* per request slot: the handler's arguments and locals
  res,        \* per request slot: what the last finished call returned
  budget,     \* requests the clients may still issue
  allowed     \* the calls clients issue

storeVars == <<users, accounts, ledger, inTx, saved>>
vars == <<users, accounts, ledger, hasLedger, jwtSecret, inTx, saved, clock, pc, req, res, budget, allowed>>

NoRow == [absent |-> TRUE]
NoSnapshot == [absent |-> TRUE]

Store == [users |-> users, accounts |-> accounts, ledger |-> ledger]

\* What a reader on another connection (or after a crash) would find.
Committed == IF inTx THEN saved ELSE Store

\* ------------------------------------------------------------ pure helpers
RECURSIVE SumLedger(_, _, _)
SumLedger(rows, accountNumber, type) ==
  IF rows = <<>> THEN 0
  ELSE (IF Head(rows).accountId = accountNumber /\ Head(rows).type = type
          THEN Head(rows).amount ELSE 0)
       + SumLedger(Tail(rows), accountNumber, type)

LedgerIds(rows) == {rows[i].id : i \in 1..Len(rows)}

MapAccount(accountNumber, row) ==
  [accountNumber |-> accountNumber, sortCode |-> row.sortCode, name |-> row.name,
   accountType |-> row.accountType, balance |-> row.balance, currency |-> row.currency,
   createdTimestamp |-> row.createdTimestamp, updatedTimestamp |-> row.updatedTimestamp]

AccountOwner(row) == IF row = NoRow THEN "" ELSE row.userId

\* The ownership check that only refuses when no owner was found.
OwnerMismatchWhenMissing(accountOwner, userId) == accountOwner = ""

OwnerMismatch(accountOwner, userId) == accountOwner # userId

\* The funds check with its operands exchanged.
InsufficientFundsSwapped(balance, amount) == amount < balance

InsufficientFunds(balance, amount) == balance < amount

\* The arithmetic that credits whatever the type.
NewBalanceCredits(balance, amount, type) == balance + amount

NewBalance(balance, amount, type) ==
  IF type = "deposit" THEN balance + amount ELSE balance - amount

\* ---------------------------------------------------------------- requests
IdleReq ==
  [op |-> "none", accountNumber |-> "", userId |-> "", amount |-> 0, type |-> "",
   reference |-> "", name |-> "", accountType |-> "", phase |-> "pre", account |-> NoRow, written |-> {},
   transactionId |-> "", createdTimestamp |-> 0, newBalance |-> 0,
   auth |-> "", pathUserId |-> "", dataUserId |-> ""]

NoResult == [kind |-> "none", body |-> NoRow, status |-> 0]
Result(kind) == [kind |-> kind, body |-> NoRow]

\* The status the createTransaction controller answers insufficient funds with, were it
\* the one of a validation failure.
TransactionStatusConflated(kind) ==
  CASE kind = "not-found" -> 404
    [] kind = "forbidden" -> 403
    [] kind = "insufficient-funds" -> 400
    [] kind = "validation" -> 400
    [] kind = "error" -> 500
    [] OTHER -> 201

\* The status the createTransaction controller answers each outcome with.
TransactionStatus(kind) ==
  CASE kind = "not-found" -> 404
    [] kind = "forbidden" -> 403
    [] kind = "insufficient-funds" -> 422
    [] kind = "validation" -> 400
    [] kind = "error" -> 500
    [] OTHER -> 201

\* The status a controller answers an outcome of its service with.
StatusOf(op, kind) ==
  CASE op \in {"createTransaction", "postTransaction"} -> TransactionStatus(kind)
    [] kind = "not-found" -> 404
    [] kind = "forbidden" -> 403
    [] kind = "validation" -> 400
    [] kind = "has-accounts" -> 409
    [] kind = "error" -> 500
    [] kind = "deleted" -> 204
    [] kind = "account" /\ op = "createAccount" -> 201
    [] OTHER -> 200

\* The response to the request r whose handling came to this result.
Respond(r, result) ==
  [kind |-> result.kind, body |-> result.body, status |-> StatusOf(r.op, result.kind)]

\* A request of a client: the handler it is routed to with that handler's arguments
\* (those it does not take are "" or 0), sent with a valid token of userId; dataUserId
\* is the value of a key userId in the updateData of an update, "" when it has none.
Call(op, accountNumber, userId, amount, type, reference, name, accountType, transactionId) ==
  [op |-> op, accountNumber |-> accountNumber, userId |-> userId, amount |-> amount,
   type |-> type, reference |-> reference, name |-> name, accountType |-> accountType,
   transactionId |-> transactionId, auth |-> "token", pathUserId |-> "",
   dataUserId |-> ""]

CreateTransactionCalls ==
  {Call("createTransaction", a, u, m, t, r, "", "", "") :
     a \in AcctNums, u \in Users, m \in Amounts, t \in TransactionTypes, r \in References}
FetchAccountCalls ==
  {Call("fetchAccount", a, u, 0, "", "", "", "", "") : a \in AcctNums, u \in Users}
CreateAccountCalls ==
  {Call("createAccount", "", u, 0, "", "", "main", t, "") : u \in Users, t \in AccountTypes}
UpdateAccountCalls ==
  {Call("updateAccount", a, u, 0, "", "", n, t, "") :
     a \in AcctNums, u \in Users, n \in {"", "spare"}, t \in {"", "business"}}
ListTransactionsCalls ==
  {Call("listTransactions", a, u, 0, "", "", "", "", "") : a \in AcctNums, u \in Users}
FetchTransactionCalls ==
  {Call("fetchTransaction", a, u, 0, "", "", "", "", i) :
     a \in AcctNums, u \in Users, i \in TxIds}
ListAccountsCalls == {Call("listAccounts", "", u, 0, "", "", "", "", "") : u \in Users}

\* A request to /v1/users/{pathUserId}; a PATCH carries a new name, or an empty body.
UserCall(op, pathUserId, userId, name) ==
  [Call(op, "", userId, 0, "", "", name, "", "") EXCEPT !.pathUserId = pathUserId]

FetchUserCalls == {UserCall("fetchUser", v, u, "") : v \in Users, u \in Users}
UpdateUserCalls ==
  {UserCall("updateUser", v, u, n) : v \in Users, u \in Users, n \in {"", "renamed"}}
DeleteUserCalls == {UserCall("deleteUser", v, u, "") : v \in Users, u \in Users}
UserOps == {"fetchUser", "updateUser", "deleteUser"}

\* What a request carries as its Authorization header: none, one that is not a Bearer
\* token, a Bearer token that jwt.verify rejects, a verified token whose payload has no
\* userId, a verified token with a userId.
AuthHeaders == {"none", "basic", "forged", "anonymous", "token"}
WithHeader(c, header) == [c EXCEPT !.auth = header]

AllCalls ==
  CreateTransactionCalls \cup FetchAccountCalls \cup CreateAccountCalls
    \cup UpdateAccountCalls \cup ListTransactionsCalls \cup FetchTransactionCalls
    \cup ListAccountsCalls \cup FetchUserCalls \cup UpdateUserCalls \cup DeleteUserCalls
    \cup {WithHeader(c, h) : c \in DeleteUserCalls, h \in AuthHeaders}

\* The call returns (or throws): its slot keeps the finished call and its answer
\* until the next request arrives.
Return(p, result) ==
  /\ pc' = [pc EXCEPT ![p] = "idle"]
  /\ UNCHANGED req
  /\ res' = [res EXCEPT ![p] = Respond(req[p], result)]

Goto(p, label, locals) ==
  /\ pc' = [pc EXCEPT ![p] = label]
  /\ req' = [req EXCEPT ![p] = locals]
  /\ UNCHANGED res

\* ------------------------------------------------------------ the gate
\* A caller that throws whatever the gate answered.
GateDeniedThrows(p, answer) == Return(p, Result("error"))

\* The gate refused: its caller propagates the answer, except the re-fetch at the end
\* of updateAccountByAccountNumber, which throws.
GateDenied(p, answer) ==
  IF req[p].op = "updateAccount" /\ req[p].phase = "post"
    THEN Return(p, Result("error"))
    ELSE Return(p, Result(answer))

\* fetchAccountByAccountNumber, first query: SELECT * FROM bank_accounts.
Gate1(p) ==
  /\ pc[p] = "gate1"
  /\ LET row == accounts[req[p].accountNumber] IN
       IF row = NoRow
         THEN GateDenied(p, "not-found")
         ELSE Goto(p, "gate2", [req[p] EXCEPT !.account = MapAccount(req[p].accountNumber, row)])
  /\ UNCHANGED <<storeVars, hasLedger, jwtSecret, clock, budget, allowed>>

\* The handler a call continues with once the gate returned the account.
AfterGate(p) ==
  CASE req[p].op = "fetchAccount" ->
         Return(p, [kind |-> "account", body |-> req[p].account]) /\ UNCHANGED clock
    [] req[p].op = "createTransaction" ->
         Goto(p, "ct_begin", req[p]) /\ UNCHANGED clock
    [] req[p].op = "updateAccount" /\ req[p].phase = "pre" ->
         \E now \in clock..MaxClock:
           /\ clock' = now
           /\ Goto(p, "ua_update", [req[p] EXCEPT !.createdTimestamp = now])
    [] req[p].op = "updateAccount" /\ req[p].phase = "post" ->
         Return(p, [kind |-> "account", body |-> req[p].account]) /\ UNCHANGED clock
    [] req[p].op = "listTransactions" ->
         Goto(p, "lt_select", req[p]) /\ UNCHANGED clock
    [] req[p].op = "fetchTransaction" ->
         Goto(p, "ft_select", req[p]) /\ UNCHANGED clock

\* A gate whose refusal carries the account it read.
Gate2Leaks(p) ==
  /\ pc[p] = "gate2"
  /\ LET accountOwner == AccountOwner(accounts[req[p].accountNumber]) IN
       IF OwnerMismatch(accountOwner, req[p].userId)
         THEN Return(p, [kind |-> "forbidden", body |-> req[p].account]) /\ UNCHANGED clock
         ELSE AfterGate(p)
  /\ UNCHANGED <<storeVars, hasLedger, jwtSecret, budget, allowed>>

\* fetchAccountByAccountNumber, second query: SELECT userId FROM bank_accounts.
Gate2(p) ==
  /\ pc[p] = "gate2"
  /\ LET accountOwner == AccountOwner(accounts[req[p].accountNumber]) IN
       IF OwnerMismatch(accountOwner, req[p].userId)
         THEN GateDenied(p, "forbidden") /\ UNCHANGED clock
         ELSE AfterGate(p)
  /\ UNCHANGED <<storeVars, hasLedger, jwtSecret, budget, allowed>>

\* --------------------------------------------------------- createTransaction
\* BEGIN TRANSACTION, then id, timestamp and the balance arithmetic.
CtBegin(p) ==
  /\ pc[p] = "ct_begin"
  /\ IF inTx
       THEN \* SQLITE_ERROR: cannot start a transaction within a transaction
            /\ Goto(p, "ct_catch", req[p])
            /\ UNCHANGED <<storeVars, clock>>
       ELSE /\ inTx' = TRUE
            /\ saved' = Store
            /\ UNCHANGED <<users, accounts, ledger>>
            /\ \E id \in TxIds, now \in clock..MaxClock:
                 /\ clock' = now
                 /\ LET r == [req[p] EXCEPT !.transactionId = id, !.createdTimestamp = now]
                        balance == req[p].account.balance
                    IN CASE r.type = "deposit" ->
                              Goto(p, "ct_insert",
                                   [r EXCEPT !.newBalance = NewBalance(balance, r.amount, r.type)])
                         [] r.type = "withdrawal" ->
                              IF InsufficientFunds(balance, r.amount)
                                THEN Goto(p, "ct_rollback", r)
                                ELSE Goto(p, "ct_insert",
                                          [r EXCEPT !.newBalance = NewBalance(balance, r.amount, r.type)])
                         [] OTHER -> Goto(p, "ct_rollback", r)
  /\ UNCHANGED <<hasLedger, jwtSecret, budget, allowed>>

\* A ROLLBACK that also empties table transactions.
RollbackEmptiesLedger ==
  /\ inTx' = FALSE
  /\ saved' = NoSnapshot
  /\ users' = saved.users
  /\ accounts' = saved.accounts
  /\ ledger' = <<>>

\* ROLLBACK restores the store of the open transaction's BEGIN, whoever began it.
Rollback ==
  /\ inTx' = FALSE
  /\ saved' = NoSnapshot
  /\ users' = saved.users
  /\ accounts' = saved.accounts
  /\ ledger' = saved.ledger

\* The ROLLBACK of the balance arithmetic: on insufficient funds, then return; on an
\* invalid type, then throw.
CtRollback(p) ==
  /\ pc[p] = "ct_rollback"
  /\ IF inTx
       THEN /\ Rollback
            /\ IF req[p].type = "withdrawal"
                 THEN Return(p, Result("insufficient-funds"))
                 ELSE Goto(p, "ct_catch", req[p])
       ELSE \* SQLITE_ERROR: cannot rollback - no transaction is active
            Goto(p, "ct_catch", req[p]) /\ UNCHANGED storeVars
  /\ UNCHANGED <<hasLedger, jwtSecret, clock, budget, allowed>>

\* A reference is "" when the request has none (or an empty one); the column holds NULL
\* then (reference || null), and a record read back has none (row.reference || undefined).
Null == "NULL"
OrNull(reference) == IF reference = "" THEN Null ELSE reference
OrUndefined(reference) == IF reference \in {Null, ""} THEN "" ELSE reference

LedgerRow(r) ==
  [id |-> r.transactionId, accountId |-> r.accountNumber, userId |-> r.userId,
   amount |-> r.amount, currency |-> "GBP", type |-> r.type,
   reference |-> OrNull(r.reference), createdTimestamp |-> r.createdTimestamp]

\* INSERT INTO transactions.
CtInsert(p) ==
  /\ pc[p] = "ct_insert"
  /\ IF hasLedger /\ req[p].transactionId \notin LedgerIds(ledger)
       THEN /\ ledger' = Append(ledger, LedgerRow(req[p]))
            /\ Goto(p, "ct_update", [req[p] EXCEPT !.written = {"ledger"}])
       ELSE \* no such table: transactions, or UNIQUE constraint failed: transactions.id
            /\ UNCHANGED ledger
            /\ Goto(p, "ct_catch", req[p])
  /\ UNCHANGED <<users, accounts, inTx, saved, hasLedger, jwtSecret, clock, budget, allowed>>

\* UPDATE bank_accounts SET balance = ?, updatedTimestamp = ? WHERE accountNumber = ?.
CtUpdate(p) ==
  /\ pc[p] = "ct_update"
  /\ LET a == req[p].accountNumber IN
       accounts' = IF accounts[a] = NoRow THEN accounts
                   ELSE [accounts EXCEPT ![a].balance = req[p].newBalance,
                                         ![a].updatedTimestamp = req[p].createdTimestamp]
  /\ Goto(p, "ct_commit", [req[p] EXCEPT !.written = {"ledger", "balance"}])
  /\ UNCHANGED <<users, ledger, inTx, saved, hasLedger, jwtSecret, clock, budget, allowed>>

\* A response stamped with the time after the one the row was stored with.
TransactionResponseRestamped(r) ==
  [id |-> r.transactionId, amount |-> r.amount, currency |-> "GBP", type |-> r.type,
   reference |-> r.reference, userId |-> r.userId,
   createdTimestamp |-> r.createdTimestamp + 1]

\* The response built from the call's locals; its reference is left out ("") when the
\* request had none.
TransactionResponse(r) ==
  [id |-> r.transactionId, amount |-> r.amount, currency |-> "GBP", type |-> r.type,
   reference |-> r.reference, userId |-> r.userId, createdTimestamp |-> r.createdTimestamp]

\* COMMIT, then the response.
CtCommit(p) ==
  /\ pc[p] = "ct_commit"
  /\ IF inTx
       THEN /\ inTx' = FALSE
            /\ saved' = NoSnapshot
            /\ Return(p, [kind |-> "transaction", body |-> TransactionResponse(req[p])])
       ELSE \* SQLITE_ERROR: cannot commit - no transaction is active
            /\ UNCHANGED <<inTx, saved>>
            /\ Goto(p, "ct_catch", req[p])
  /\ UNCHANGED <<users, accounts, ledger, hasLedger, jwtSecret, clock, budget, allowed>>

\* A catch that rethrows without a ROLLBACK.
CtCatchNoRollback(p) ==
  /\ pc[p] = "ct_catch"
  /\ UNCHANGED storeVars
  /\ Return(p, Result("error"))
  /\ UNCHANGED <<hasLedger, jwtSecret, clock, budget, allowed>>

\* catch: ROLLBACK (its own failure is only logged), then rethrow.
CtCatch(p) ==
  /\ pc[p] = "ct_catch"
  /\ IF inTx THEN Rollback ELSE UNCHANGED storeVars
  /\ Return(p, Result("error"))
  /\ UNCHANGED <<hasLedger, jwtSecret, clock, budget, allowed>>

\* ------------------------------------------------------------ read the ledger
MapTransaction(row) ==
  [id |-> row.id, amount |-> row.amount, currency |-> row.currency, type |-> row.type,
   reference |-> OrUndefined(row.reference), userId |-> row.userId,
   createdTimestamp |-> row.createdTimestamp]

\* A SELECT without the WHERE clause.
RowsOfAnyAccount(rows, accountNumber) == rows

RowsOfAccount(rows, accountNumber) ==
  SelectSeq(rows, LAMBDA row: row.accountId = accountNumber)

\* ORDER BY createdTimestamp DESC: SQL leaves the order of equal timestamps open.
OrderedByCreatedDesc(rows) ==
  LET n == Len(rows)
      perms == {f \in [1..n -> 1..n] : \A i, j \in 1..n: i # j => f[i] # f[j]}
  IN {[i \in 1..n |-> rows[f[i]]] : f \in
        {g \in perms : \A i, j \in 1..n:
           i < j => rows[g[i]].createdTimestamp >= rows[g[j]].createdTimestamp}}

\* SELECT ... FROM transactions WHERE accountId = ? ORDER BY createdTimestamp DESC.
LtSelect(p) ==
  /\ pc[p] = "lt_select"
  /\ IF hasLedger
       THEN \E rows \in OrderedByCreatedDesc(RowsOfAccount(ledger, req[p].accountNumber)):
              Return(p, [kind |-> "transactions",
                         body |-> [rows |-> [i \in 1..Len(rows) |-> MapTransaction(rows[i])]]])
       ELSE Return(p, Result("error"))
  /\ UNCHANGED <<storeVars, hasLedger, jwtSecret, clock, budget, allowed>>

\* A lookup by id alone, whatever the account.
MatchingRowsById(rows, accountNumber, transactionId) ==
  {i \in 1..Len(rows) : rows[i].id = transactionId}

\* WHERE accountId = ? AND id = ?: the positions of the rows that match.
MatchingRows(rows, accountNumber, transactionId) ==
  {i \in 1..Len(rows) : rows[i].accountId = accountNumber /\ rows[i].id = transactionId}

\* SELECT ... FROM transactions WHERE accountId = ? AND id = ?.
FtSelect(p) ==
  /\ pc[p] = "ft_select"
  /\ IF hasLedger
       THEN LET found == MatchingRows(ledger, req[p].accountNumber, req[p].transactionId)
            IN IF found = {}
                 THEN Return(p, Result("not-found"))
                 ELSE Return(p, [kind |-> "transaction",
                                 body |-> MapTransaction(ledger[CHOOSE i \in found: TRUE])])
       ELSE Return(p, Result("error"))
  /\ UNCHANGED <<storeVars, hasLedger, jwtSecret, clock, budget, allowed>>

\* -------------------------------------------------------------- createAccount
AccountRow(userId, name, accountType, now) ==
  [sortCode |-> "10-10-10", name |-> name, accountType |-> accountType, balance |-> 0,
   currency |-> "GBP", userId |-> userId, createdTimestamp |-> now, updatedTimestamp |-> now]

\* INSERT INTO bank_accounts.
CaInsert(p) ==
  /\ pc[p] = "ca_insert"
  /\ LET a == req[p].accountNumber IN
       IF accounts[a] = NoRow /\ users[req[p].userId] # NoRow
         THEN /\ accounts' = [accounts EXCEPT ![a] =
                   AccountRow(req[p].userId, req[p].name, req[p].accountType, req[p].createdTimestamp)]
              /\ Return(p, [kind |-> "account", body |-> MapAccount(a, accounts'[a])])
         ELSE \* UNIQUE constraint failed: bank_accounts.accountNumber, or FOREIGN KEY constraint failed
              /\ UNCHANGED accounts
              /\ Return(p, Result("error"))
  /\ UNCHANGED <<users, ledger, inTx, saved, hasLedger, jwtSecret, clock, budget, allowed>>

\* ------------------------------------------------ updateAccountByAccountNumber
\* A SET clause built from every key of updateData, userId included.
UpdatedRowAnyKey(row, r) ==
  [row EXCEPT !.name = IF r.name = "" THEN @ ELSE r.name,
              !.accountType = IF r.accountType = "" THEN @ ELSE r.accountType,
              !.userId = IF r.dataUserId = "" THEN @ ELSE r.dataUserId,
              !.updatedTimestamp = r.createdTimestamp]

\* The row after the UPDATE: of the keys of updateData only name and accountType make
\* it into the SET clause, and updatedTimestamp is always set.
UpdatedRow(row, r) ==
  [row EXCEPT !.name = IF r.name = "" THEN @ ELSE r.name,
              !.accountType = IF r.accountType = "" THEN @ ELSE r.accountType,
              !.updatedTimestamp = r.createdTimestamp]

\* An update that writes back the whole account as the gate read it.
UaUpdateWholeRow(p) ==
  /\ pc[p] = "ua_update"
  /\ LET a == req[p].accountNumber
         row == accounts[a]
     IN accounts' =
          IF row = NoRow THEN accounts
          ELSE [accounts EXCEPT ![a] =
                 [row EXCEPT !.name = IF req[p].name = "" THEN @ ELSE req[p].name,
                             !.accountType = IF req[p].accountType = "" THEN @ ELSE req[p].accountType,
                             !.balance = req[p].account.balance,
                             !.updatedTimestamp = req[p].createdTimestamp]]
  /\ Goto(p, "gate1", [req[p] EXCEPT !.phase = "post", !.account = NoRow])
  /\ UNCHANGED <<users, ledger, inTx, saved, hasLedger, jwtSecret, clock, budget, allowed>>

\* UPDATE bank_accounts SET [name = ?,] [accountType = ?,] updatedTimestamp = ?.
UaUpdate(p) ==
  /\ pc[p] = "ua_update"
  /\ LET a == req[p].accountNumber
         row == accounts[a]
     IN accounts' =
          IF row = NoRow THEN accounts
          ELSE [accounts EXCEPT ![a] = UpdatedRow(row, req[p])]
  /\ Goto(p, "gate1", [req[p] EXCEPT !.phase = "post", !.account = NoRow])
  /\ UNCHANGED <<users, ledger, inTx, saved, hasLedger, jwtSecret, clock, budget, allowed>>

\* ---------------------------------------------------------------- the users
MapUser(id, row) ==
  [id |-> id, name |-> row.name, createdTimestamp |-> row.createdTimestamp,
   updatedTimestamp |-> row.updatedTimestamp]

\* fetchUserById: SELECT ... FROM users WHERE id = ?; called by the GET controller, and by
\* updateUserById before and after its UPDATE.
FuSelect(p) ==
  /\ pc[p] = "fu_select"
  /\ LET id == req[p].pathUserId
         row == users[id]
     IN CASE row = NoRow ->
               /\ Return(p, Result(IF req[p].phase = "post" THEN "error" ELSE "not-found"))
               /\ UNCHANGED clock
          [] row # NoRow /\ req[p].op = "updateUser" /\ req[p].phase = "pre" ->
               \E now \in clock..MaxClock:
                 /\ clock' = now
                 /\ Goto(p, "uu_update", [req[p] EXCEPT !.createdTimestamp = now])
          [] OTHER ->
               /\ Return(p, [kind |-> "user", body |-> MapUser(id, row)])
               /\ UNCHANGED clock
  /\ UNCHANGED <<storeVars, hasLedger, jwtSecret, budget, allowed>>

\* updateUserById: UPDATE users SET name = ?, updatedTimestamp = ? WHERE id = ?.
UuUpdate(p) ==
  /\ pc[p] = "uu_update"
  /\ LET id == req[p].pathUserId IN
       users' = IF users[id] = NoRow THEN users
                ELSE [users EXCEPT ![id].name = req[p].name,
                                   ![id].updatedTimestamp = req[p].createdTimestamp]
  /\ Goto(p, "fu_select", [req[p] EXCEPT !.phase = "post"])
  /\ UNCHANGED <<accounts, ledger, inTx, saved, hasLedger, jwtSecret, clock, budget, allowed>>

\* deleteUserById: SELECT id FROM users WHERE id = ?.
DuSelect(p) ==
  /\ pc[p] = "du_select"
  /\ IF users[req[p].pathUserId] = NoRow
       THEN Return(p, Result("not-found"))
       ELSE Goto(p, "du_count", req[p])
  /\ UNCHANGED <<storeVars, hasLedger, jwtSecret, clock, budget, allowed>>

AccountsOf(accts, userId) == {a \in AcctNums : accts[a] # NoRow /\ accts[a].userId = userId}

\* SELECT COUNT(*) AS count FROM bank_accounts WHERE userId = ?.
AccountCount(accts, userId) == Cardinality(AccountsOf(accts, userId))

DuCount(p) ==
  /\ pc[p] = "du_count"
  /\ IF AccountCount(accounts, req[p].pathUserId) > 0
       THEN Return(p, Result("has-accounts"))
       ELSE Goto(p, "du_delete", req[p])
  /\ UNCHANGED <<storeVars, hasLedger, jwtSecret, clock, budget, allowed>>

\* DELETE FROM users WHERE id = ?, with foreign keys on: the user's bank_accounts rows
\* go with it (ON DELETE CASCADE).
DuDelete(p) ==
  /\ pc[p] = "du_delete"
  /\ LET id == req[p].pathUserId IN
       /\ users' = [users EXCEPT ![id] = NoRow]
       /\ accounts' = [a \in AcctNums |->
                         IF a \in AccountsOf(accounts, id) THEN NoRow ELSE accounts[a]]
  /\ Return(p, Result("deleted"))
  /\ UNCHANGED <<ledger, inTx, saved, hasLedger, jwtSecret, clock, budget, allowed>>

\* --------------------------------------------------------------- listAccounts
\* The rows of bank_accounts WHERE userId = ?, mapped to responses, in some order.
AccountsOfUser(accts, userId) ==
  LET S == AccountsOf(accts, userId)
      f == CHOOSE g \in [1..Cardinality(S) -> S] : \A i, j \in 1..Cardinality(S): i # j => g[i] # g[j]
  IN [i \in 1..Cardinality(S) |-> MapAccount(f[i], accts[f[i]])]

\* A listing that stamps the accounts it returned as read.
LaSelectStamps(p) ==
  /\ pc[p] = "la_select"
  /\ \E rows \in OrderedByCreatedDesc(AccountsOfUser(accounts, req[p].userId)):
       Return(p, [kind |-> "accounts", body |-> [rows |-> rows]])
  /\ accounts' = [a \in AcctNums |->
                    IF a \in AccountsOf(accounts, req[p].userId)
                      THEN [accounts[a] EXCEPT !.updatedTimestamp = MaxClock + 1]
                      ELSE accounts[a]]
  /\ UNCHANGED <<users, ledger, inTx, saved, hasLedger, jwtSecret, clock, budget, allowed>>

\* listAccounts: SELECT * FROM bank_accounts WHERE userId = ? ORDER BY createdTimestamp DESC.
LaSelect(p) ==
  /\ pc[p] = "la_select"
  /\ \E rows \in OrderedByCreatedDesc(AccountsOfUser(accounts, req[p].userId)):
       Return(p, [kind |-> "accounts", body |-> [rows |-> rows]])
  /\ UNCHANGED <<storeVars, hasLedger, jwtSecret, clock, budget, allowed>>

\* ------------------------------------------------------------------- start
\* CreateTransactionRequestSchema.parse(req.body), the amount of the body counted in
\* tenths of a penny (0.001): at least 0.01, at most 10000.00, a multiple of 0.01, and a
\* type of the enum.  This one accepts any amount from 0.01 up.
ValidBodyNoCeiling(c) ==
  /\ c.amount >= MinAmount * 10
  /\ c.amount % 10 = 0
  /\ c.type \in TransactionTypes

ValidBody(c) ==
  /\ c.amount >= MinAmount * 10
  /\ c.amount <= MaxAmount * 10
  /\ c.amount % 10 = 0
  /\ c.type \in TransactionTypes

\* authenticateToken that also lets a verified token without a userId through.
AuthenticateTokenLenient(secret, header) ==
  IF ~secret THEN "error"
  ELSE IF header \in {"token", "anonymous"} THEN "next"
  ELSE "unauthorized"

\* authenticateToken: "next" when it calls next(), else what it answers itself.
AuthenticateToken(secret, header) ==
  IF ~secret THEN "error"
  ELSE IF header \in {"none", "basic"} THEN "unauthorized"
  ELSE IF header = "token" THEN "next"
  ELSE "unauthorized"

\* A self check that lets every authenticated caller through.
NotSelfNever(userIdFromParams, authenticatedUserId) == FALSE

\* The user controllers' check: userIdFromParams !== authenticatedUserId.
NotSelf(userIdFromParams, authenticatedUserId) == userIdFromParams # authenticatedUserId

\* The response authenticateToken sends when it does not call next().
Unauthenticated(verdict) ==
  [kind |-> verdict, body |-> NoRow, status |-> IF verdict = "unauthorized" THEN 401 ELSE 500]

\* A request arrives: authenticateToken, then the controller, then the service up to its
\* first database call.  The user controllers answer 403 themselves when the path names
\* another user, and the PATCH of a user 400 on an empty body; the createTransaction
\* controller validates the body before it calls the service, and answers 400 itself when
\* the body is invalid.
Start(p) ==
  /\ pc[p] = "idle"
  /\ budget > 0
  /\ budget' = budget - 1
  /\ \E c \in allowed:
       LET r == [IdleReq EXCEPT !.op = c.op, !.accountNumber = c.accountNumber,
                                !.userId = c.userId, !.amount = c.amount, !.type = c.type,
                                !.reference = c.reference, !.name = c.name,
                                !.accountType = c.accountType, !.transactionId = c.transactionId,
                                !.auth = c.auth, !.pathUserId = c.pathUserId,
                                !.dataUserId = c.dataUserId]
           verdict == AuthenticateToken(jwtSecret, c.auth)
       IN CASE verdict # "next" ->
                 /\ req' = [req EXCEPT ![p] = r]
                 /\ res' = [res EXCEPT ![p] = Unauthenticated(verdict)]
                 /\ UNCHANGED <<pc, clock>>
            [] verdict = "next" /\ c.op \in UserOps /\ NotSelf(c.pathUserId, c.userId) ->
                 /\ req' = [req EXCEPT ![p] = r]
                 /\ res' = [res EXCEPT ![p] = Respond(r, Result("forbidden"))]
                 /\ UNCHANGED <<pc, clock>>
            [] verdict = "next" /\ c.op \in UserOps /\ ~NotSelf(c.pathUserId, c.userId) ->
                 IF c.op = "updateUser" /\ c.name = ""
                   THEN /\ req' = [req EXCEPT ![p] = r]
                        /\ res' = [res EXCEPT ![p] = Respond(r, Result("validation"))]
                        /\ UNCHANGED <<pc, clock>>
                   ELSE /\ pc' = [pc EXCEPT ![p] = IF c.op = "deleteUser" THEN "du_select" ELSE "fu_select"]
                        /\ req' = [req EXCEPT ![p] = r]
                        /\ res' = [res EXCEPT ![p] = NoResult]
                        /\ UNCHANGED clock
            [] verdict = "next" /\ c.op = "listAccounts" ->
                 /\ pc' = [pc EXCEPT ![p] = "la_select"]
                 /\ req' = [req EXCEPT ![p] = r]
                 /\ res' = [res EXCEPT ![p] = NoResult]
                 /\ UNCHANGED clock
            [] verdict = "next" /\ c.op = "createAccount" ->
                 \E n \in AcctNums, now \in clock..MaxClock:
                   /\ clock' = now
                   /\ pc' = [pc EXCEPT ![p] = "ca_insert"]
                   /\ req' = [req EXCEPT ![p] = [r EXCEPT !.accountNumber = n, !.createdTimestamp = now]]
                   /\ res' = [res EXCEPT ![p] = NoResult]
            [] verdict = "next" /\ c.op = "postTransaction" /\ ValidBody(c) ->
                 /\ pc' = [pc EXCEPT ![p] = "gate1"]
                 /\ req' = [req EXCEPT ![p] =
                              [r EXCEPT !.op = "createTransaction", !.amount = c.amount \div 10]]
                 /\ res' = [res EXCEPT ![p] = NoResult]
                 /\ UNCHANGED clock
            [] verdict = "next" /\ c.op = "postTransaction" /\ ~ValidBody(c) ->
                 /\ req' = [req EXCEPT ![p] = r]
                 /\ res' = [res EXCEPT ![p] = Respond(r, Result("validation"))]
                 /\ UNCHANGED <<pc, clock>>
            [] OTHER ->
                 /\ pc' = [pc EXCEPT ![p] = "gate1"]
                 /\ req' = [req EXCEPT ![p] = r]
                 /\ res' = [res EXCEPT ![p] = NoResult]
                 /\ UNCHANGED clock
  /\ UNCHANGED <<storeVars, hasLedger, jwtSecret, allowed>>

\* ---------------------------------------------------------------- the system
NoAccounts == [a \in AcctNums |-> NoRow]

\* A row of table users: of its columns, the name and the timestamps.
UserRow(name, now) == [name |-> name, createdTimestamp |-> now, updatedTimestamp |-> now]

InitWith(accts, rows, calls, n) ==
  /\ users = [u \in Users |-> UserRow("registered", 0)]
  /\ accounts = accts
  /\ ledger = rows
  /\ inTx = FALSE
  /\ saved = NoSnapshot
  /\ clock = 0
  /\ pc = [p \in Procs |-> "idle"]
  /\ req = [p \in Procs |-> IdleReq]
  /\ res = [p \in Procs |-> NoResult]
  /\ budget = n
  /\ allowed = calls

\* An account opened earlier by usr-a, never transacted on.
OneAccount == [NoAccounts EXCEPT !["01000001"] = AccountRow("usr-a", "main", "personal", 0)]

\* The database file outlives the process: migrateDb creates users and bank_accounts
\* only, so whether table transactions exists is up to the file.  Whether JWT_SECRET is
\* set is up to the environment the server is started in.
Init ==
  /\ hasLedger \in BOOLEAN
  /\ jwtSecret \in BOOLEAN
  /\ \E accts \in {NoAccounts, OneAccount}: InitWith(accts, <<>>, AllCalls, MaxReqs)

Next ==
  \E p \in Procs:
    \/ Start(p)
    \/ Gate1(p)
    \/ Gate2(p)
    \/ CtBegin(p)
    \/ CtRollback(p)
    \/ CtInsert(p)
    \/ CtUpdate(p)
    \/ CtCommit(p)
    \/ CtCatch(p)
    \/ LtSelect(p)
    \/ FtSelect(p)
    \/ CaInsert(p)
    \/ LaSelect(p)
    \/ UaUpdate(p)
    \/ FuSelect(p)
    \/ UuUpdate(p)
    \/ DuSelect(p)
    \/ DuCount(p)
    \/ DuDelete(p)

Spec == Init /\ [][Next]_vars

\* ---------------------------------------------------------------- scenarios
\* Clients that only call createTransaction: the steps of that handler.
NextTransactions ==
  \E p \in Procs:
    \/ Start(p)
    \/ Gate1(p)
    \/ Gate2(p)
    \/ CtBegin(p)
    \/ CtRollback(p)
    \/ CtInsert(p)
    \/ CtUpdate(p)
    \/ CtCommit(p)
    \/ CtCatch(p)

\* The owner's deposits and withdrawals on the account of OneAccount.
OwnerTransactions ==
  {c \in CreateTransactionCalls : c.accountNumber = "01000001" /\ c.userId = "usr-a"}

\* The same clients served one at a time: a request arrives and runs only while no
\* other is in flight.
NextSeq ==
  \E p \in Procs:
    /\ \A q \in Procs \ {p}: pc[q] = "idle"
    /\ \/ Start(p)
       \/ Gate1(p)
       \/ Gate2(p)
       \/ CtBegin(p)
       \/ CtRollback(p)
       \/ CtInsert(p)
       \/ CtUpdate(p)
       \/ CtCommit(p)
       \/ CtCatch(p)

InitSeq ==
  /\ hasLedger \in BOOLEAN
  /\ jwtSecret = TRUE
  /\ InitWith(OneAccount, <<>>, OwnerTransactions, MaxReqs + 1)

SpecSeq == InitSeq /\ [][NextSeq]_vars

\* One request per client slot, all by the owner on one account with a ledger table.
InitPair ==
  /\ hasLedger = TRUE
  /\ jwtSecret = TRUE
  /\ InitWith(OneAccount, <<>>, OwnerTransactions, NumProcs)

SpecPair == InitPair /\ [][NextTransactions]_vars

\* The same clients with one request more than there are slots.
InitTriple ==
  /\ hasLedger = TRUE
  /\ jwtSecret = TRUE
  /\ InitWith(OneAccount, <<>>, OwnerTransactions, NumProcs + 1)

SpecTriple == InitTriple /\ [][NextTransactions]_vars

\* An account holding 100.00 from one earlier deposit, and its owner withdrawing 80.00
\* once per client slot.
FundedAccount == [OneAccount EXCEPT !["01000001"].balance = 10000]
FundingRow ==
  [id |-> "tan-0", accountId |-> "01000001", userId |-> "usr-a", amount |-> 10000,
   currency |-> "GBP", type |-> "deposit", reference |-> Null, createdTimestamp |-> 0]
Withdraw80 == Call("createTransaction", "01000001", "usr-a", 8000, "withdrawal", "", "", "", "")

InitIsolation ==
  /\ hasLedger = TRUE
  /\ jwtSecret = TRUE
  /\ InitWith(FundedAccount, <<FundingRow>>, {Withdraw80}, NumProcs)

SpecIsolation == InitIsolation /\ [][NextTransactions]_vars

\* The operations that write a balance, all by usr-a: opening an account, depositing
\* 0.02 to and withdrawing 0.01 or 0.02 from account 01000001, and renaming it.
BalanceCalls ==
  {c \in OwnerTransactions : c.type = "withdrawal" \/ c.amount = 2}
    \cup {Call("createAccount", "", "usr-a", 0, "", "", "main", "personal", ""),
         Call("updateAccount", "01000001", "usr-a", 0, "", "", "spare", "", "")}

NextBalance ==
  \E p \in Procs:
    \/ Start(p)
    \/ Gate1(p)
    \/ Gate2(p)
    \/ CtBegin(p)
    \/ CtRollback(p)
    \/ CtInsert(p)
    \/ CtUpdate(p)
    \/ CtCommit(p)
    \/ CtCatch(p)
    \/ CaInsert(p)
    \/ UaUpdate(p)

InitBalance ==
  /\ hasLedger = TRUE
  /\ jwtSecret = TRUE
  /\ InitWith(OneAccount, <<>>, BalanceCalls, MaxReqs)

SpecBalance == InitBalance /\ [][NextBalance]_vars

\* The gated operations on account 01000001, called by its owner usr-a and by usr-b,
\* while usr-a may be opening an account.
GateCalls ==
  {Call("createAccount", "", "usr-a", 0, "", "", "main", "personal", "")}
    \cup {c \in FetchAccountCalls \cup ListTransactionsCalls : c.accountNumber = "01000001"}
    \cup {c \in FetchTransactionCalls : c.accountNumber = "01000001" /\ c.transactionId = "tan-1"}
    \cup {c \in CreateTransactionCalls : c.accountNumber = "01000001" /\ c.amount = 1}

NextGate ==
  \E p \in Procs:
    \/ Start(p)
    \/ Gate1(p)
    \/ Gate2(p)
    \/ CtBegin(p)
    \/ CtRollback(p)
    \/ CtInsert(p)
    \/ CtUpdate(p)
    \/ CtCommit(p)
    \/ CtCatch(p)
    \/ LtSelect(p)
    \/ FtSelect(p)
    \/ CaInsert(p)

InitGate ==
  /\ hasLedger = TRUE
  /\ jwtSecret = TRUE
  /\ \E accts \in {NoAccounts, OneAccount}: InitWith(accts, <<>>, GateCalls, MaxReqs)

SpecGate == InitGate /\ [][NextGate]_vars

\* Two accounts of two owners, each owner transacting on their own account only.
TwoAccounts == [OneAccount EXCEPT !["01000002"] = AccountRow("usr-b", "main", "personal", 0)]

OwnAccountCalls ==
  {Call("createTransaction", "01000001", "usr-a", 1, "deposit", "", "", "", ""),
   Call("createTransaction", "01000001", "usr-a", 1, "withdrawal", "", "", "", ""),
   Call("createTransaction", "01000002", "usr-b", 2, "deposit", "", "", "", "")}

InitTwoAccounts ==
  /\ hasLedger = TRUE
  /\ jwtSecret = TRUE
  /\ InitWith(TwoAccounts, <<>>, OwnAccountCalls, NumProcs)

SpecTwoAccounts == InitTwoAccounts /\ [][NextTransactions]_vars

\* Each owner deposits to their own account while usr-a looks up transaction tan-1 on
\* account 01000001.
LookupCalls ==
  {Call("createTransaction", "01000001", "usr-a", 1, "deposit", "", "", "", ""),
   Call("createTransaction", "01000002", "usr-b", 2, "deposit", "", "", "", ""),
   Call("fetchTransaction", "01000001", "usr-a", 0, "", "", "", "", "tan-1")}

NextLookup ==
  \E p \in Procs:
    \/ Start(p)
    \/ Gate1(p)
    \/ Gate2(p)
    \/ CtBegin(p)
    \/ CtInsert(p)
    \/ CtUpdate(p)
    \/ CtCommit(p)
    \/ CtCatch(p)
    \/ FtSelect(p)

InitLookup ==
  /\ hasLedger = TRUE
  /\ jwtSecret = TRUE
  /\ InitWith(TwoAccounts, <<>>, LookupCalls, MaxReqs)

SpecLookup == InitLookup /\ [][NextLookup]_vars

\* An account holding 10000.00 from one earlier deposit of the largest valid amount, and
\* its owner transacting on it.
FullAccount == [OneAccount EXCEPT !["01000001"].balance = MaxBalance]
FillingRow == [FundingRow EXCEPT !.amount = MaxAmount]

CeilingCalls ==
  OwnerTransactions
    \cup {Call("createTransaction", "01000001", "usr-a", MaxAmount, "withdrawal", "", "", "", "")}

InitCeiling ==
  /\ hasLedger = TRUE
  /\ jwtSecret = TRUE
  /\ InitWith(FullAccount, <<FillingRow>>, CeilingCalls, NumProcs)

SpecCeiling == InitCeiling /\ [][NextTransactions]_vars

\* Bodies POSTed by the owner to /v1/accounts/01000001/transactions, amounts in tenths
\* of a penny: 0.00, 0.015, 10000.01 and a type outside the enum are invalid; 0.01 and
\* 10000.00 are valid.
PostedBodies ==
  {Call("postTransaction", "01000001", "usr-a", m, "deposit", "", "", "", "") :
     m \in {0, 15, MaxAmount * 10 + 10, MinAmount * 10, MaxAmount * 10}}
    \cup {Call("postTransaction", "01000001", "usr-a", MinAmount * 10, t, "", "", "", "") :
            t \in {"withdrawal", "transfer"}}

InitValidation ==
  /\ hasLedger = TRUE
  /\ jwtSecret = TRUE
  /\ InitWith(OneAccount, <<>>, PostedBodies, MaxReqs)

SpecValidation == InitValidation /\ [][NextTransactions]_vars

\* Two accounts with one earlier deposit each, made at the same instant; usr-a deposits
\* to and lists the transactions of account 01000001.
ListingAccounts ==
  [FundedAccount EXCEPT !["01000002"] =
     [AccountRow("usr-b", "main", "personal", 0) EXCEPT !.balance = 2]]
OtherRow ==
  [FundingRow EXCEPT !.id = "tan-9", !.accountId = "01000002", !.userId = "usr-b", !.amount = 2]
ListingCalls ==
  {Call("createTransaction", "01000001", "usr-a", 1, "deposit", "", "", "", ""),
   Call("listTransactions", "01000001", "usr-a", 0, "", "", "", "", "")}

NextListing ==
  \E p \in Procs:
    \/ Start(p)
    \/ Gate1(p)
    \/ Gate2(p)
    \/ CtBegin(p)
    \/ CtInsert(p)
    \/ CtUpdate(p)
    \/ CtCommit(p)
    \/ CtCatch(p)
    \/ LtSelect(p)

InitListing ==
  /\ hasLedger = TRUE
  /\ jwtSecret = TRUE
  /\ InitWith(ListingAccounts, <<FundingRow, OtherRow>>, ListingCalls, MaxReqs)

SpecListing == InitListing /\ [][NextListing]_vars

\* usr-a deposits 0.02 to account 01000001 while renaming it or changing its type.
MetadataCalls ==
  {Call("createTransaction", "01000001", "usr-a", 2, "deposit", "", "", "", ""),
   Call("updateAccount", "01000001", "usr-a", 0, "", "", "spare", "", ""),
   Call("updateAccount", "01000001", "usr-a", 0, "", "", "", "business", "")}

NextMetadata ==
  \E p \in Procs:
    \/ Start(p)
    \/ Gate1(p)
    \/ Gate2(p)
    \/ CtBegin(p)
    \/ CtInsert(p)
    \/ CtUpdate(p)
    \/ CtCommit(p)
    \/ CtCatch(p)
    \/ UaUpdate(p)

InitMetadata ==
  /\ hasLedger = TRUE
  /\ jwtSecret = TRUE
  /\ InitWith(OneAccount, <<>>, MetadataCalls, MaxReqs)

SpecMetadata == InitMetadata /\ [][NextMetadata]_vars

\* usr-a opens accounts and asks for the deletion of usr-a.
UserDeletionCalls ==
  {UserCall("deleteUser", "usr-a", "usr-a", ""),
   Call("createAccount", "", "usr-a", 0, "", "", "main", "personal", "")}

NextUserDeletion ==
  \E p \in Procs:
    \/ Start(p)
    \/ CaInsert(p)
    \/ DuSelect(p)
    \/ DuCount(p)
    \/ DuDelete(p)

InitUserDeletion ==
  /\ hasLedger = TRUE
  /\ jwtSecret = TRUE
  /\ \E accts \in {NoAccounts, OneAccount}: InitWith(accts, <<>>, UserDeletionCalls, MaxReqs)

SpecUserDeletion == InitUserDeletion /\ [][NextUserDeletion]_vars

\* Both users read, rename and delete themselves and each other; usr-a owns an account.
UserCalls == FetchUserCalls \cup UpdateUserCalls \cup DeleteUserCalls

NextUsers ==
  \E p \in Procs:
    \/ Start(p)
    \/ FuSelect(p)
    \/ UuUpdate(p)
    \/ DuSelect(p)
    \/ DuCount(p)
    \/ DuDelete(p)

InitUsers ==
  /\ hasLedger = TRUE
  /\ jwtSecret = TRUE
  /\ InitWith(OneAccount, <<>>, UserCalls, MaxReqs)

SpecUsers == InitUsers /\ [][NextUsers]_vars

\* Requests to three protected routes, sent with each kind of Authorization header, to a
\* server started with or without a JWT_SECRET.
ProtectedCalls ==
  {WithHeader(c, h) :
     c \in {Call("createAccount", "", "usr-a", 0, "", "", "main", "personal", ""),
            UserCall("updateUser", "usr-a", "usr-a", "renamed"),
            UserCall("deleteUser", "usr-b", "usr-b", "")},
     h \in AuthHeaders}

NextAuth ==
  \E p \in Procs:
    \/ Start(p)
    \/ CaInsert(p)
    \/ FuSelect(p)
    \/ UuUpdate(p)
    \/ DuSelect(p)
    \/ DuCount(p)
    \/ DuDelete(p)

InitAuth ==
  /\ hasLedger = TRUE
  /\ jwtSecret \in BOOLEAN
  /\ InitWith(NoAccounts, <<>>, ProtectedCalls, MaxReqs)

SpecAuth == InitAuth /\ [][NextAuth]_vars

\* Bodies POSTed to the transactions of account 01000001 by its owner (a deposit and a
\* withdrawal of 0.01, a deposit of 0.00) and by usr-b, and by usr-a to an account number
\* that does not exist.
OutcomeCalls ==
  {Call("postTransaction", "01000001", "usr-a", MinAmount * 10, "deposit", "", "", "", ""),
   Call("postTransaction", "01000001", "usr-a", MinAmount * 10, "withdrawal", "", "", "", ""),
   Call("postTransaction", "01000001", "usr-a", 0, "deposit", "", "", "", ""),
   Call("postTransaction", "01000001", "usr-b", MinAmount * 10, "deposit", "", "", "", ""),
   Call("postTransaction", "01000002", "usr-a", MinAmount * 10, "deposit", "", "", "", "")}

InitOutcomes ==
  /\ hasLedger = TRUE
  /\ jwtSecret = TRUE
  /\ InitWith(OneAccount, <<>>, OutcomeCalls, MaxReqs)

SpecOutcomes == InitOutcomes /\ [][NextTransactions]_vars

\* The owner's transactions on account 01000001, one of them with a reference.
RecordCalls ==
  {Call("createTransaction", "01000001", "usr-a", 1, "deposit", "rent", "", "", ""),
   Call("createTransaction", "01000001", "usr-a", 2, "deposit", "", "", "", ""),
   Call("createTransaction", "01000001", "usr-a", 1, "withdrawal", "", "", "", "")}

InitRecord ==
  /\ hasLedger = TRUE
  /\ jwtSecret = TRUE
  /\ InitWith(OneAccount, <<>>, RecordCalls, MaxReqs)

SpecRecord == InitRecord /\ [][NextTransactions]_vars

\* The tables of the database file the server is started on: a file connectDb has just
\* created, one left by an earlier run, and one to which a table transactions was added
\* by other means.
DatabaseFiles ==
  {{}, {"users", "bank_accounts"}, {"users", "bank_accounts", "transactions"}}

\* migrateDb: CREATE TABLE IF NOT EXISTS users, then bank_accounts.
MigrateDb(tables) == tables \cup {"users", "bank_accounts"}

\* The owner's transactions on a server started on any of these files.
InitStartup ==
  /\ \E file \in DatabaseFiles: hasLedger = ("transactions" \in MigrateDb(file))
  /\ jwtSecret = TRUE
  /\ InitWith(OneAccount, <<>>, OwnerTransactions, MaxReqs)

SpecStartup == InitStartup /\ [][NextTransactions]_vars

\* The owner deposits 0.01 to and withdraws 0.01 from account 01000001; every awaited
\* database call of a request in flight completes in the end (the statements queued on
\* the connection are run in turn, and the event loop resumes each handler).
ReleaseCalls ==
  {Call("createTransaction", "01000001", "usr-a", 1, "deposit", "", "", "", ""),
   Call("createTransaction", "01000001", "usr-a", 1, "withdrawal", "", "", "", "")}

Proceed(p) ==
  \/ Gate1(p)
  \/ Gate2(p)
  \/ CtBegin(p)
  \/ CtRollback(p)
  \/ CtInsert(p)
  \/ CtUpdate(p)
  \/ CtCommit(p)
  \/ CtCatch(p)

InitRelease ==
  /\ hasLedger = TRUE
  /\ jwtSecret = TRUE
  /\ InitWith(OneAccount, <<>>, ReleaseCalls, MaxReqs)

SpecRelease ==
  InitRelease /\ [][NextTransactions]_vars /\ \A p \in Procs: WF_vars(Proceed(p))

\* Deposits to account 01000001 by usr-a and by usr-b, on a store with or without that
\* account, while usr-a may be opening an account.
EarlyExitCalls ==
  {Call("createTransaction", "01000001", "usr-a", 1, "deposit", "", "", "", ""),
   Call("createTransaction", "01000001", "usr-b", 1, "deposit", "", "", "", ""),
   Call("createAccount", "", "usr-a", 0, "", "", "main", "personal", "")}

NextEarlyExit ==
  \E p \in Procs:
    \/ Start(p)
    \/ Gate1(p)
    \/ Gate2(p)
    \/ CtBegin(p)
    \/ CtInsert(p)
    \/ CtUpdate(p)
    \/ CtCommit(p)
    \/ CtCatch(p)
    \/ CaInsert(p)

InitEarlyExit ==
  /\ hasLedger = TRUE
  /\ jwtSecret = TRUE
  /\ \E accts \in {NoAccounts, OneAccount}: InitWith(accts, <<>>, EarlyExitCalls, MaxReqs)

SpecEarlyExit == InitEarlyExit /\ [][NextEarlyExit]_vars

\* usr-a overdraws account 01000001 while renaming it and while usr-b opens an account.
NextDurable ==
  \E p \in Procs:
    \/ Start(p)
    \/ Gate1(p)
    \/ Gate2(p)
    \/ CtBegin(p)
    \/ CtRollback(p)
    \/ CtCatch(p)
    \/ CaInsert(p)
    \/ UaUpdate(p)

InitDurable ==
  LET calls ==
        {Call("createTransaction", "01000001", "usr-a", 1, "withdrawal", "", "", "", ""),
         Call("createAccount", "", "usr-b", 0, "", "", "main", "personal", ""),
         Call("updateAccount", "01000001", "usr-a", 0, "", "", "spare", "", "")}
  IN /\ hasLedger = TRUE
     /\ jwtSecret = TRUE
     /\ InitWith(OneAccount, <<>>, calls, MaxReqs)

SpecDurable == InitDurable /\ [][NextDurable]_vars

\* usr-a and usr-b call updateAccountByAccountNumber on account 01000001 with an
\* updateData that has neither name nor accountType, or with a new name.
NextEmptyUpdate ==
  \E p \in Procs:
    \/ Start(p)
    \/ Gate1(p)
    \/ Gate2(p)
    \/ UaUpdate(p)

InitEmptyUpdate ==
  LET calls ==
        {Call("updateAccount", "01000001", u, 0, "", "", n, "", "") :
         u \in Users, n \in {"", "spare"}}
  IN /\ hasLedger = TRUE
     /\ jwtSecret = TRUE
     /\ InitWith(OneAccount, <<>>, calls, MaxReqs)

SpecEmptyUpdate == InitEmptyUpdate /\ [][NextEmptyUpdate]_vars

\* usr-a deposits to and withdraws from account 01000001 while updating it with an
\* updateData that has a name and a userId.
NextIdentity ==
  \E p \in Procs:
    \/ Start(p)
    \/ Gate1(p)
    \/ Gate2(p)
    \/ CtBegin(p)
    \/ CtRollback(p)
    \/ CtInsert(p)
    \/ CtUpdate(p)
    \/ CtCommit(p)
    \/ CtCatch(p)
    \/ UaUpdate(p)

InitIdentity ==
  LET calls ==
        {Call("createTransaction", "01000001", "usr-a", 2, "deposit", "", "", "", ""),
         Call("createTransaction", "01000001", "usr-a", 1, "withdrawal", "", "", "", ""),
         [Call("updateAccount", "01000001", "usr-a", 0, "", "", "spare", "", "")
            EXCEPT !.dataUserId = "usr-b"]}
  IN /\ hasLedger = TRUE
     /\ jwtSecret = TRUE
     /\ InitWith(OneAccount, <<>>, calls, MaxReqs)

SpecIdentity == InitIdentity /\ [][NextIdentity]_vars

\* usr-a overdraws account 01000001 while usr-b opens an account and deposits to it.
NextOrphan ==
  \E p \in Procs:
    \/ Start(p)
    \/ Gate1(p)
    \/ Gate2(p)
    \/ CtBegin(p)
    \/ CtRollback(p)
    \/ CtInsert(p)
    \/ CtUpdate(p)
    \/ CtCommit(p)
    \/ CtCatch(p)
    \/ CaInsert(p)

InitOrphan ==
  LET calls ==
        {Call("createTransaction", "01000001", "usr-a", 1, "withdrawal", "", "", "", ""),
         Call("createAccount", "", "usr-b", 0, "", "", "main", "personal", ""),
         Call("createTransaction", "01000002", "usr-b", 1, "deposit", "", "", "", "")}
  IN /\ hasLedger = TRUE
     /\ jwtSecret = TRUE
     /\ InitWith(OneAccount, <<>>, calls, NumProcs + 1)

SpecOrphan == InitOrphan /\ [][NextOrphan]_vars

\* usr-a overdraws account 01000001 and opens an account while usr-b opens an account and
\* deposits to it.
InitAudit ==
  LET calls ==
        {Call("createTransaction", "01000001", "usr-a", 1, "withdrawal", "", "", "", ""),
         Call("createAccount", "", "usr-b", 0, "", "", "main", "personal", ""),
         Call("createTransaction", "01000002", "usr-b", 1, "deposit", "", "", "", ""),
         Call("createAccount", "", "usr-a", 0, "", "", "main", "personal", "")}
  IN /\ hasLedger = TRUE
     /\ jwtSecret = TRUE
     /\ InitWith(OneAccount, <<>>, calls, NumProcs + 2)

SpecAudit == InitAudit /\ [][NextOrphan]_vars

\* Both users read account 01000001, its ledger and their own accounts, and usr-b an
\* account that does not exist, while usr-a deposits to account 01000001.
NextReads ==
  \E p \in Procs:
    \/ Start(p)
    \/ Gate1(p)
    \/ Gate2(p)
    \/ CtBegin(p)
    \/ CtInsert(p)
    \/ CtUpdate(p)
    \/ CtCommit(p)
    \/ CtCatch(p)
    \/ LtSelect(p)
    \/ FtSelect(p)
    \/ LaSelect(p)

InitReads ==
  LET calls ==
        {Call("createTransaction", "01000001", "usr-a", 1, "deposit", "", "", "", ""),
         Call("fetchAccount", "01000002", "usr-b", 0, "", "", "", "", "")}
        \cup {c \in FetchAccountCalls \cup ListTransactionsCalls : c.accountNumber = "01000001"}
        \cup {c \in FetchTransactionCalls : c.accountNumber = "01000001" /\ c.transactionId = "tan-1"}
        \cup ListAccountsCalls
  IN /\ hasLedger = TRUE
     /\ jwtSecret = TRUE
     /\ InitWith(FundedAccount, <<FundingRow>>, calls, MaxReqs)

SpecReads == InitReads /\ [][NextReads]_vars

\* usr-b, who owns no account, calls every gated handler on usr-a's account 01000001 and
\* one of them on the missing account 01000002, while usr-a deposits to account 01000001;
\* the account starts fresh, or funded and renamed.
NextNoninterference ==
  \E p \in Procs:
    \/ Start(p)
    \/ Gate1(p)
    \/ Gate2(p)
    \/ CtBegin(p)
    \/ CtInsert(p)
    \/ CtUpdate(p)
    \/ CtCommit(p)
    \/ CtCatch(p)

InitNoninterference ==
  LET calls ==
        {Call("fetchAccount", a, "usr-b", 0, "", "", "", "", "") : a \in AcctNums}
          \cup {Call("createTransaction", "01000001", "usr-b", 1, "withdrawal", "", "", "", ""),
                Call("updateAccount", "01000001", "usr-b", 0, "", "", "taken", "", ""),
                Call("listTransactions", "01000001", "usr-b", 0, "", "", "", "", ""),
                Call("fetchTransaction", "01000001", "usr-b", 0, "", "", "", "", "tan-0"),
                Call("createTransaction", "01000001", "usr-a", 1, "deposit", "", "", "", "")}
      renamed ==
        [FundedAccount EXCEPT !["01000001"].name = "spare", !["01000001"].accountType = "business"]
  IN /\ hasLedger = TRUE
     /\ jwtSecret = TRUE
     /\ \/ InitWith(OneAccount, <<>>, calls, MaxReqs)
        \/ InitWith(renamed, <<FundingRow>>, calls, MaxReqs)

SpecNoninterference == InitNoninterference /\ [][NextNoninterference]_vars

\* usr-a overdraws the existing account while usr-b opens an account and reads it.
VanishCalls ==
  {Call("createTransaction", "01000001", "usr-a", 1, "withdrawal", "", "", "", ""),
   Call("createAccount", "", "usr-b", 0, "", "", "main", "personal", ""),
   Call("fetchAccount", "01000002", "usr-b", 0, "", "", "", "", "")}

NextVanish ==
  \E p \in Procs:
    \/ Start(p)
    \/ Gate1(p)
    \/ Gate2(p)
    \/ CtBegin(p)
    \/ CtRollback(p)
    \/ CtCatch(p)
    \/ CaInsert(p)

InitVanish ==
  /\ hasLedger = TRUE
  /\ jwtSecret = TRUE
  /\ InitWith(OneAccount, <<>>, VanishCalls, NumProcs + 1)

SpecVanish == InitVanish /\ [][NextVanish]_vars

\* usr-b opens an account, which usr-b and usr-a then read, while usr-a overdraws account
\* 01000001.
CreationCalls ==
  {Call("createTransaction", "01000001", "usr-a", 1, "withdrawal", "", "", "", ""),
   Call("createAccount", "", "usr-b", 0, "", "", "main", "personal", ""),
   Call("fetchAccount", "01000002", "usr-b", 0, "", "", "", "", ""),
   Call("fetchAccount", "01000002", "usr-a", 0, "", "", "", "", "")}

InitCreation ==
  /\ hasLedger = TRUE
  /\ jwtSecret = TRUE
  /\ InitWith(OneAccount, <<>>, CreationCalls, NumProcs + 1)

SpecCreation == InitCreation /\ [][NextVanish]_vars

\* ============================================================== properties
\* The balance of account a in store s, and what its ledger rows add up to.
BalanceOf(s, a) == s.accounts[a].balance
LedgerTotal(s, a) == SumLedger(s.ledger, a, "deposit") - SumLedger(s.ledger, a, "withdrawal")

\* C1 (conservation): in every committed state, the balance of every existing account
\* equals the sum of its committed deposits minus the sum of its committed withdrawals.
Conservation ==
  \A a \in AcctNums:
    Committed.accounts[a] # NoRow => BalanceOf(Committed, a) = LedgerTotal(Committed, a)

\* C5 (non-negativity): no account balance, neither the one the connection sees nor the
\* committed one, is ever below zero.
NonNegativeBalance ==
  \A a \in AcctNums:
    /\ accounts[a] # NoRow => accounts[a].balance >= 0
    /\ Committed.accounts[a] # NoRow => BalanceOf(Committed, a) >= 0

\* C5 witness: a committed withdrawal has taken an account's balance down to zero.
WithdrawnToZero ==
  \E a \in AcctNums:
    /\ ~inTx
    /\ accounts[a] # NoRow
    /\ accounts[a].balance = 0
    /\ SumLedger(ledger, a, "withdrawal") > 0

\* Slot p takes a step; slot p's call returns or throws.
Moves(p) == pc'[p] # pc[p]
Returns(p) == pc[p] # "idle" /\ pc'[p] = "idle"

RECURSIVE SumReturnedAmounts(_)
SumReturnedAmounts(S) ==
  IF S = {} THEN 0
  ELSE LET p == CHOOSE q \in S: TRUE
       IN res[p].body.amount + SumReturnedAmounts(S \ {p})

\* C2 (isolation): with a balance of 100.00 and one withdrawal of 80.00 issued per
\* client at once, when all have answered exactly one call returned a transaction
\* record and the other returned the insufficient-funds outcome.
IsolationOutcome ==
  (\A p \in Procs: pc[p] = "idle" /\ res[p].kind # "none") =>
    /\ Cardinality({p \in Procs : res[p].kind = "transaction"}) = 1
    /\ Cardinality({p \in Procs : res[p].kind = "insufficient-funds"}) = NumProcs - 1

\* C3 (atomicity on success): when createTransaction returns a transaction record, a
\* ledger row with the returned id exists and the account holds the balance that call
\* computed.
AtomicOnSuccess ==
  [][\A p \in Procs:
       (pc[p] = "ct_commit" /\ Returns(p) /\ res'[p].kind = "transaction") =>
         /\ res'[p].body.id \in LedgerIds(ledger')
         /\ accounts'[req[p].accountNumber] # NoRow
         /\ accounts'[req[p].accountNumber].balance = req[p].newBalance]_vars

\* C4 (atomicity on failure): when createTransaction fails, whatever the failure, the
\* ledger row it inserted and the balance it wrote are not in the store it leaves.
AtomicOnFailure ==
  [][\A p \in Procs:
       (req[p].op = "createTransaction" /\ Returns(p) /\ res'[p].kind # "transaction") =>
         LET a == req[p].accountNumber IN
           /\ "ledger" \in req[p].written =>
                \A i \in 1..Len(ledger'): ledger'[i] # LedgerRow(req[p])
           /\ "balance" \in req[p].written =>
                ~ /\ accounts'[a] # NoRow
                  /\ accounts'[a].balance = req[p].newBalance
                  /\ accounts'[a].updatedTimestamp = req[p].createdTimestamp]_vars

\* C6 (no lost update): when one deposit per client, issued concurrently on an account
\* that started at 0.00, has each returned a transaction record, the balance is the sum
\* of the deposited amounts.
NoLostUpdate ==
  (\A p \in Procs:
     pc[p] = "idle" /\ res[p].kind = "transaction" /\ res[p].body.type = "deposit") =>
    accounts["01000001"].balance = 0 + SumReturnedAmounts(Procs)

\* What the gate (fetchAccountByAccountNumber) hands back when it returns.
GateReturns(p) ==
  \/ pc[p] = "gate1" /\ pc'[p] = "idle"
  \/ pc[p] = "gate2" /\ pc'[p] # "gate2"
GateSaysNotFound(p) == pc'[p] = "idle" /\ res'[p].kind = "not-found"
GateSaysForbidden(p) == pc'[p] = "idle" /\ res'[p].kind = "forbidden"

\* C7 (gate result): the gate returns not-found exactly when no account with that number
\* exists, forbidden exactly when one exists and its owner is not the caller, and the
\* account exactly when one exists and its owner is the caller.
GateResult ==
  [][\A p \in Procs:
       (GateReturns(p) /\ req[p].phase = "pre") =>
         LET row == accounts[req[p].accountNumber] IN
           /\ GateSaysNotFound(p) <=> row = NoRow
           /\ GateSaysForbidden(p) <=> (row # NoRow /\ AccountOwner(row) # req[p].userId)
           /\ (~GateSaysNotFound(p) /\ ~GateSaysForbidden(p))
                <=> (row # NoRow /\ AccountOwner(row) = req[p].userId)]_vars

GatedOps == {"fetchAccount", "listTransactions", "fetchTransaction", "createTransaction"}

\* C8 as written (ownership isolation): a caller who is not the owner of the account is
\* answered forbidden by get account, list transactions, get transaction and apply
\* transaction, whether or not the account exists.
NonOwnerAlwaysForbidden ==
  [][\A p \in Procs:
       (/\ req[p].op \in GatedOps
        /\ pc[p] \in {"gate1", "gate2"}
        /\ Returns(p)
        /\ AccountOwner(accounts[req[p].accountNumber]) # req[p].userId) =>
         res'[p].kind = "forbidden"]_vars

\* C8 amended (ownership isolation): for get account, list transactions, get transaction
\* and apply transaction, the gate's lookup answers not-found when no account has that
\* number, and its ownership query answers forbidden whenever the owner it finds is not
\* the caller; so a caller who is not the owner never gets past the gate.
NonOwnerRefused ==
  [][\A p \in Procs:
       (req[p].op \in GatedOps /\ Moves(p)) =>
         LET row == accounts[req[p].accountNumber] IN
           /\ (pc[p] = "gate1" /\ row = NoRow) => GateSaysNotFound(p)
           /\ (pc[p] = "gate2" /\ AccountOwner(row) # req[p].userId) => GateSaysForbidden(p)]_vars

\* C8 witness: an apply-transaction call by a user who does not own the existing account
\* has been answered forbidden.
NonOwnerWasRefused ==
  \E p \in Procs:
    /\ pc[p] = "idle"
    /\ req[p].op = "createTransaction"
    /\ res[p].kind = "forbidden"
    /\ accounts[req[p].accountNumber] # NoRow
    /\ accounts[req[p].accountNumber].userId # req[p].userId

\* C9 (insufficient funds): a withdrawal by the owner whose amount exceeds the account's
\* current (committed) balance when the funds check runs takes the insufficient-funds
\* path, and that path returns insufficient-funds, adds no ledger row and leaves the
\* balance and updatedTimestamp as they were.
OverdraftRefused ==
  [][\A p \in Procs:
       (req[p].op = "createTransaction" /\ req[p].type = "withdrawal" /\ Moves(p)) =>
         LET a == req[p].accountNumber IN
           /\ (/\ pc[p] = "ct_begin"
               /\ Committed.accounts[a] # NoRow
               /\ req[p].amount > BalanceOf(Committed, a)) =>
                pc'[p] = "ct_rollback" /\ ledger' = ledger /\ accounts' = accounts
           /\ pc[p] = "ct_rollback" =>
                /\ pc'[p] = "idle"
                /\ res'[p].kind = "insufficient-funds"
                /\ \A i \in 1..Len(ledger'): \E j \in 1..Len(ledger): ledger'[i] = ledger[j]
                /\ accounts'[a].balance = accounts[a].balance
                /\ accounts'[a].updatedTimestamp = accounts[a].updatedTimestamp]_vars

LedgerImmutable ==
  [][\A i \in 1..Len(Committed.ledger):
       /\ i <= Len(Committed'.ledger)
       /\ Committed'.ledger[i] = Committed.ledger[i]]_vars

\* C11 witness: a deposit was committed, and a withdrawal that read the balance it left
\* has since been refused and rolled back; the deposit's row is still in the ledger.
RowSurvivedRollback ==
  \E p, q \in Procs:
    /\ pc[p] = "idle" /\ res[p].kind = "transaction"
    /\ pc[q] = "idle" /\ res[q].kind = "insufficient-funds"
    /\ req[q].account.balance > 0
    /\ ~inTx
    /\ res[p].body.id \in LedgerIds(ledger)

\* C12 (failure rollback): when every createTransaction call issued on the fresh account
\* has failed, one of them after its BEGIN (at its INSERT, UPDATE or COMMIT), the
\* committed account store and ledger are exactly what they were before the calls.
FailureRestoresStores ==
  (/\ \A p \in Procs: pc[p] = "idle" /\ res[p].kind = "error"
   /\ \E p \in Procs: req[p].transactionId # "") =>
    Committed.accounts = OneAccount /\ Committed.ledger = <<>>

\* What a createTransaction call on a fresh account (balance 0.00, empty ledger) returns
\* when it runs alone.
OutcomeAlone(r) == IF r.type = "deposit" THEN "transaction" ELSE "insufficient-funds"

\* C13 (independence of accounts): a createTransaction call on one account, with the only
\* other request in flight being on a different account, returns what it would return
\* had it run alone.
AccountsIndependent ==
  \A p \in Procs:
    (/\ pc[p] = "idle"
     /\ res[p].kind # "none"
     /\ \A q \in Procs \ {p}: req[q].accountNumber # req[p].accountNumber) =>
      res[p].kind = OutcomeAlone(req[p])

\* C14 (account number uniqueness): createAccount always succeeds in storing the new
\* account under a number no existing account had, and leaves every existing account
\* as it was, also when the number it generated first is already taken.
CreateAccountAvoidsCollision ==
  [][\A p \in Procs:
       (pc[p] = "ca_insert" /\ Returns(p)) =>
         /\ res'[p].kind = "account"
         /\ accounts[res'[p].body.accountNumber] = NoRow
         /\ \A a \in AcctNums: accounts[a] # NoRow => accounts'[a] = accounts[a]]_vars

\* C15 (transaction id uniqueness): when the id createTransaction generated is already
\* the id of a ledger row, the call still stores its row, under an id no row had, and
\* keeps every existing row.
CreateTransactionAvoidsCollision ==
  [][\A p \in Procs:
       (/\ pc[p] = "ct_insert"
        /\ Moves(p)
        /\ hasLedger
        /\ req[p].transactionId \in LedgerIds(ledger)) =>
         /\ pc'[p] = "ct_update"
         /\ Len(ledger') = Len(ledger) + 1
         /\ ledger'[Len(ledger')].id \notin LedgerIds(ledger)
         /\ SubSeq(ledger', 1, Len(ledger)) = ledger]_vars

\* C16 (cross-account lookup): fetchAccountTransactionByID, past the gate, answers
\* not-found when no ledger row has both the requested account and the requested id (so
\* also when the id exists on another account only), and any record it returns is that
\* of a ledger row of the requested account with the requested id.
CrossAccountLookup ==
  [][\A p \in Procs:
       (pc[p] = "ft_select" /\ Returns(p) /\ hasLedger) =>
         LET mine == {i \in 1..Len(ledger) :
                        /\ ledger[i].accountId = req[p].accountNumber
                        /\ ledger[i].id = req[p].transactionId}
         IN /\ mine = {} => res'[p].kind = "not-found"
            /\ res'[p].kind = "transaction" =>
                 \E i \in mine: res'[p].body = MapTransaction(ledger[i])
            /\ res'[p].kind \in {"not-found", "transaction"}]_vars

\* C16 witness: the owner of an account asked for a transaction id that exists on another
\* account only, and was answered not-found.
ForeignTransactionNotFound ==
  \E p \in Procs:
    /\ pc[p] = "idle"
    /\ req[p].op = "fetchTransaction"
    /\ res[p].kind = "not-found"
    /\ accounts[req[p].accountNumber] # NoRow
    /\ accounts[req[p].accountNumber].userId = req[p].userId
    /\ \E i \in 1..Len(ledger):
         ledger[i].id = req[p].transactionId /\ ledger[i].accountId # req[p].accountNumber

\* C17 (balance upper bound): every account's balance, as the connection sees it and as
\* committed, lies between 0.00 and 10000.00.
BalanceWithinBounds ==
  \A a \in AcctNums:
    /\ accounts[a] # NoRow => (0 <= accounts[a].balance /\ accounts[a].balance <= MaxBalance)
    /\ Committed.accounts[a] # NoRow =>
         (0 <= BalanceOf(Committed, a) /\ BalanceOf(Committed, a) <= MaxBalance)

\* C18 (validation before any store access): a POSTed transaction whose amount is not
\* positive, exceeds 10000.00 or is not a multiple of 0.01, or whose type is neither
\* deposit nor withdrawal, is answered with a validation failure without the service
\* being called: only bodies with a valid amount and type ever reach createTransaction,
\* and the step that rejects a body changes neither the ledger nor any account.
ValidationFirst ==
  [][\A p \in Procs:
       /\ (pc[p] = "idle" /\ pc'[p] # "idle") =>
            /\ req'[p].op = "createTransaction"
            /\ req'[p].amount \in MinAmount..MaxAmount
            /\ req'[p].type \in TransactionTypes
       /\ req'[p].op = "postTransaction" =>
            /\ pc'[p] = "idle"
            /\ res'[p].kind = "validation"
            /\ (\/ req'[p].amount < MinAmount * 10
                \/ req'[p].amount > MaxAmount * 10
                \/ req'[p].amount % 10 # 0
                \/ req'[p].type \notin TransactionTypes)
       /\ (res'[p].kind = "validation" /\ res'[p] # res[p]) =>
            ledger' = ledger /\ accounts' = accounts /\ inTx' = inTx]_vars

\* C18 witness: a deposit of 10000.01 was answered with a validation failure, and the
\* account and the ledger are untouched.
OversizeDepositRejected ==
  \E p \in Procs:
    /\ pc[p] = "idle"
    /\ req[p].op = "postTransaction"
    /\ req[p].type = "deposit"
    /\ req[p].amount = MaxAmount * 10 + 10
    /\ res[p].kind = "validation"
    /\ accounts = OneAccount
    /\ ledger = <<>>

\* The position at which the row with this id was inserted into the ledger.
InsertedAt(rows, id) == CHOOSE k \in 1..Len(rows): rows[k].id = id

\* C19 (listing order): the list returned by listAccountTransactions is ordered
\* newest-first by createdTimestamp, and records with equal createdTimestamp come in the
\* order in which they were inserted.
ListingOrder ==
  [][\A p \in Procs:
       (pc[p] = "lt_select" /\ Returns(p) /\ res'[p].kind = "transactions") =>
         LET out == res'[p].body.rows IN
           \A i, j \in 1..Len(out):
             i < j =>
               \/ out[i].createdTimestamp > out[j].createdTimestamp
               \/ /\ out[i].createdTimestamp = out[j].createdTimestamp
                  /\ InsertedAt(ledger, out[i].id) < InsertedAt(ledger, out[j].id)]_vars

\* C20 (listing membership): listAccountTransactions, past the gate, returns a list with
\* one record for every ledger row of the requested account the connection sees, so for
\* every committed one, and no record of a row of another account.
ListingMembership ==
  [][\A p \in Procs:
       (pc[p] = "lt_select" /\ Returns(p) /\ hasLedger) =>
         /\ res'[p].kind = "transactions"
         /\ LET out == res'[p].body.rows
                a == req[p].accountNumber
                own(rows) == {i \in 1..Len(rows) : rows[i].accountId = a}
            IN /\ \A i \in own(Committed.ledger):
                    \E k \in 1..Len(out): out[k] = MapTransaction(Committed.ledger[i])
               /\ \A k \in 1..Len(out):
                    \E i \in own(ledger): out[k] = MapTransaction(ledger[i])
               /\ Len(out) = Cardinality(own(ledger))]_vars

\* C20 witness: the owner's listing returned both rows of the account, the earlier one
\* and the one just deposited, while the ledger also holds a row of another account.
ListedOwnRowsOnly ==
  \E p \in Procs:
    /\ pc[p] = "idle"
    /\ req[p].op = "listTransactions"
    /\ res[p].kind = "transactions"
    /\ Len(res[p].body.rows) = 2
    /\ \E i \in 1..Len(ledger): ledger[i].accountId # req[p].accountNumber


\* C21 (early exit of the gate): when the gate answers not-found or forbidden to
\* createTransaction, the call returns that same outcome in that step: it has opened no
\* database transaction, generated no id and written nothing, and the step leaves the
\* store as it was.  A createTransaction call only ever answers not-found or forbidden
\* from the gate.
EarlyExit ==
  [][\A p \in Procs:
       (req[p].op = "createTransaction" /\ Moves(p)) =>
         LET row == accounts[req[p].accountNumber]
             exits(answer) ==
               /\ pc'[p] = "idle"
               /\ res'[p].kind = answer
               /\ res'[p].body = NoRow
               /\ req'[p].transactionId = ""
               /\ req'[p].written = {}
               /\ UNCHANGED <<users, accounts, ledger, inTx, saved>>
         IN /\ (pc[p] = "gate1" /\ row = NoRow) => exits("not-found")
            /\ (pc[p] = "gate2" /\ AccountOwner(row) # req[p].userId) => exits("forbidden")
            /\ (Returns(p) /\ res'[p].kind \in {"not-found", "forbidden"}) =>
                 pc[p] \in {"gate1", "gate2"}]_vars

\* C21 witness: a createTransaction call on a number no account has was answered
\* not-found, with no id generated, no transaction open and nothing in the ledger.
MissingAccountRefused ==
  \E p \in Procs:
    /\ pc[p] = "idle"
    /\ req[p].op = "createTransaction"
    /\ res[p].kind = "not-found"
    /\ req[p].transactionId = ""
    /\ accounts[req[p].accountNumber] = NoRow
    /\ ~inTx
    /\ ledger = <<>>


\* C22 (metadata update does not touch balance): every step of an
\* updateAccountByAccountNumber call leaves every balance, the ledger and the open
\* transaction as they were; its UPDATE changes only name, accountType and
\* updatedTimestamp of the target account.  So a balance only ever changes in a step of a
\* createTransaction call, and one written by a concurrent createTransaction is neither
\* overwritten nor rolled back by the update.
MetadataOnly ==
  [][/\ \A p \in Procs:
          (req[p].op = "updateAccount" /\ pc[p] # "idle" /\ Moves(p)) =>
            /\ UNCHANGED <<users, ledger, inTx, saved>>
            /\ pc[p] # "ua_update" => accounts' = accounts
            /\ \A a \in AcctNums:
                 /\ a # req[p].accountNumber => accounts'[a] = accounts[a]
                 /\ accounts[a] = NoRow => accounts'[a] = NoRow
                 /\ accounts[a] # NoRow =>
                      /\ accounts'[a] # NoRow
                      /\ accounts'[a].balance = accounts[a].balance
                      /\ accounts'[a].sortCode = accounts[a].sortCode
                      /\ accounts'[a].currency = accounts[a].currency
                      /\ accounts'[a].userId = accounts[a].userId
                      /\ accounts'[a].createdTimestamp = accounts[a].createdTimestamp
     /\ \A a \in AcctNums:
          (/\ accounts[a] # NoRow
           /\ accounts'[a] # NoRow
           /\ accounts'[a].balance # accounts[a].balance) =>
            \E p \in Procs: req[p].op = "createTransaction" /\ pc[p] # "idle" /\ Moves(p)]_vars

\* C22 witness: a deposit and a rename of the same account are both in flight, the rename
\* has run its UPDATE and the deposit has written its balance inside its open
\* transaction: the account has the new name and the deposit's balance.
RenamedDuringDeposit ==
  \E p, q \in Procs:
    /\ req[p].op = "createTransaction" /\ pc[p] = "ct_commit"
    /\ req[q].op = "updateAccount" /\ pc[q] = "gate1" /\ req[q].phase = "post"
    /\ req[q].accountNumber = req[p].accountNumber
    /\ inTx
    /\ accounts[req[p].accountNumber].name = "spare"
    /\ accounts[req[p].accountNumber].balance = req[p].newBalance
    /\ req[p].newBalance > 0


\* C23 (user deletion): a user who owns a bank account is never deleted: the step in
\* which deleteUserById answers finds no account of the user unless it answers
\* has-accounts (409) and leaves the user in place, and no createAccount call that returned
\* an account has an owner who has been deleted.
OwnerNeverDeleted ==
  [][\A p \in Procs:
       /\ (/\ req[p].op = "deleteUser"
           /\ Returns(p)
           /\ AccountsOf(accounts, req[p].pathUserId) # {}) =>
            /\ res'[p].kind = "has-accounts"
            /\ res'[p].status = 409
            /\ users' = users
       /\ (/\ pc'[p] = "idle"
           /\ req'[p].op = "createAccount"
           /\ res'[p].kind = "account") =>
            users'[req'[p].userId] # NoRow]_vars


\* C24 (user endpoints are self-only): a fetch, update or delete of a user whose path
\* userId differs from the authenticated userId is answered 403 on arrival, with no user
\* record in the response; the user service is never entered for it, and the step that
\* answers it leaves every user record (and the rest of the store) as it was, whether or
\* not a user with the path userId exists.
SelfOnly ==
  [][\A p \in Procs:
       (req'[p].op \in UserOps /\ req'[p].pathUserId # req'[p].userId) =>
         /\ pc'[p] = "idle"
         /\ res'[p].kind = "forbidden"
         /\ res'[p].status = 403
         /\ res'[p].body = NoRow
         /\ (req'[p] # req[p] \/ res'[p] # res[p]) =>
              UNCHANGED <<users, accounts, ledger, inTx, saved>>]_vars

\* C24 witness: usr-b has deleted themselves, and a later DELETE of usr-b sent by usr-a
\* was answered 403.
StrangerRefusedForMissingUser ==
  \E p \in Procs:
    /\ pc[p] = "idle"
    /\ req[p].op = "deleteUser"
    /\ req[p].pathUserId # req[p].userId
    /\ users[req[p].pathUserId] = NoRow
    /\ res[p].status = 403


\* C25 as written (authentication precedes every protected handler): a request whose
\* Authorization header is missing, is not a Bearer token, or carries a token that fails
\* verification or has no userId is answered 401 by authenticateToken, which never calls
\* next: the protected handler does not run and no state changes.
UnauthenticatedAlways401 ==
  [][\A p \in Procs:
       (req'[p].op # "none" /\ req'[p].auth # "token") =>
         /\ pc'[p] = "idle"
         /\ res'[p].status = 401
         /\ (req'[p] # req[p] \/ res'[p] # res[p]) =>
              UNCHANGED <<users, accounts, ledger, inTx, saved>>]_vars

\* C25 amended (authentication precedes every protected handler): such a request is
\* answered by authenticateToken itself, 401 when the server has a JWT_SECRET and 500 when
\* it has none; next is never called for it, so a protected handler only ever runs for a
\* verified token with a userId on a server with a JWT_SECRET, and the step that answers
\* the request changes no state.
AuthenticationFirst ==
  [][\A p \in Procs:
       /\ (req'[p].op # "none" /\ req'[p].auth # "token") =>
            /\ pc'[p] = "idle"
            /\ res'[p].body = NoRow
            /\ res'[p].status = IF jwtSecret THEN 401 ELSE 500
            /\ (req'[p] # req[p] \/ res'[p] # res[p]) =>
                 UNCHANGED <<users, accounts, ledger, inTx, saved>>
       /\ pc'[p] # "idle" => (req'[p].auth = "token" /\ jwtSecret)]_vars

\* C25 witness: a DELETE of usr-b carrying a token that fails verification was answered
\* 401, and usr-b is still there.
ForgedTokenRefused ==
  \E p \in Procs:
    /\ pc[p] = "idle"
    /\ req[p].op = "deleteUser"
    /\ req[p].auth = "forged"
    /\ res[p].status = 401
    /\ users[req[p].pathUserId] # NoRow


\* C26 (outcome mapping of create-transaction): every answered POST of a transaction
\* carries status 201 exactly when the outcome is a transaction record, 404 exactly when
\* not-found, 403 exactly when forbidden, 422 exactly when insufficient-funds, 400 exactly
\* when the body failed validation and 500 exactly when an error was thrown; so
\* insufficient-funds is never answered with the validation status.
OutcomeMapping ==
  \A p \in Procs:
    (/\ pc[p] = "idle"
     /\ req[p].op \in {"createTransaction", "postTransaction"}
     /\ res[p].kind # "none") =>
      /\ res[p].kind \in {"transaction", "not-found", "forbidden", "insufficient-funds",
                          "validation", "error"}
      /\ res[p].kind = "transaction" <=> res[p].status = 201
      /\ res[p].kind = "not-found" <=> res[p].status = 404
      /\ res[p].kind = "forbidden" <=> res[p].status = 403
      /\ res[p].kind = "insufficient-funds" <=> res[p].status = 422
      /\ res[p].kind = "validation" <=> res[p].status = 400
      /\ res[p].kind = "error" <=> res[p].status = 500

\* C26 witness: a withdrawal refused for insufficient funds was answered 422 and a body
\* that failed validation 400.
RefusedAndInvalidDiffer ==
  \E p, q \in Procs:
    /\ pc[p] = "idle" /\ res[p].kind = "insufficient-funds" /\ res[p].status = 422
    /\ pc[q] = "idle" /\ res[q].kind = "validation" /\ res[q].status = 400


\* An account number that a finished createAccount call of user u returned.
Acknowledged(a, u) ==
  \E q \in Procs:
    /\ pc[q] = "idle"
    /\ req[q].op = "createAccount"
    /\ req[q].userId = u
    /\ res[q].kind = "account"
    /\ res[q].body.accountNumber = a

\* C27 (account creation): createAccount by caller u returns an account that it added,
\* with balance 0.00 and owner u, as the only change to the accounts and with the ledger
\* untouched; and a fetchAccountByAccountNumber issued afterwards for that account returns
\* it with balance 0.00 to u and forbidden to any other caller.
AccountCreation ==
  [][\A p \in Procs:
       /\ (pc[p] = "ca_insert" /\ Returns(p)) =>
            LET a == req[p].accountNumber IN
              /\ res'[p].kind = "account"
              /\ accounts[a] = NoRow
              /\ accounts'[a] # NoRow
              /\ accounts'[a].balance = 0
              /\ accounts'[a].userId = req[p].userId
              /\ res'[p].body.balance = 0
              /\ \A b \in AcctNums \ {a}: accounts'[b] = accounts[b]
              /\ ledger' = ledger
       /\ (/\ req[p].op = "fetchAccount"
           /\ Returns(p)
           /\ \E u \in Users: Acknowledged(req[p].accountNumber, u)) =>
            IF Acknowledged(req[p].accountNumber, req[p].userId)
              THEN res'[p].kind = "account" /\ res'[p].body.balance = 0
              ELSE res'[p].kind = "forbidden"]_vars


\* C28 (returned record equals persisted record): the row a createTransaction call
\* inserts into the ledger and the record it returns on success agree on id, amount, type,
\* reference, userId and createdTimestamp (the returned record is what reading that row
\* back gives), and the updatedTimestamp its UPDATE writes to the account is that
\* createdTimestamp.
ReturnedEqualsStored ==
  [][\A p \in Procs:
       (req[p].op = "createTransaction" /\ Moves(p)) =>
         LET a == req[p].accountNumber IN
           /\ (pc[p] = "ct_insert" /\ pc'[p] = "ct_update") =>
                /\ ledger' = Append(ledger, LedgerRow(req[p]))
                /\ LedgerRow(req'[p]) = LedgerRow(req[p])
           /\ (pc[p] = "ct_update" /\ pc'[p] = "ct_commit") =>
                /\ accounts'[a] # NoRow =>
                     accounts'[a].updatedTimestamp = LedgerRow(req[p]).createdTimestamp
                /\ LedgerRow(req'[p]) = LedgerRow(req[p])
           /\ (pc[p] = "ct_commit" /\ Returns(p) /\ res'[p].kind = "transaction") =>
                LET stored == LedgerRow(req[p])
                    returned == res'[p].body
                IN /\ "ledger" \in req[p].written /\ "balance" \in req[p].written
                   /\ returned.id = stored.id
                   /\ returned.amount = stored.amount
                   /\ returned.type = stored.type
                   /\ returned.userId = stored.userId
                   /\ returned.createdTimestamp = stored.createdTimestamp
                   /\ returned = MapTransaction(stored)]_vars

\* C28 witness: a deposit with a reference returned its record; the row with that id in
\* the ledger carries the same reference, and the account the same timestamp.
ReferencedDepositStored ==
  \E p \in Procs:
    /\ pc[p] = "idle"
    /\ res[p].kind = "transaction"
    /\ res[p].body.reference = "rent"
    /\ \E i \in 1..Len(ledger):
         /\ ledger[i].id = res[p].body.id
         /\ ledger[i].reference = "rent"
         /\ accounts[ledger[i].accountId].updatedTimestamp = res[p].body.createdTimestamp


\* C29 (schema completeness): after connectDb and migrateDb the database has a table
\* transactions (next to users and bank_accounts, which every state of the model has), so
\* the INSERT of a createTransaction call whose id is new goes through.
SchemaComplete ==
  [][/\ hasLedger
     /\ \A p \in Procs:
          (pc[p] = "ct_insert" /\ Moves(p) /\ req[p].transactionId \notin LedgerIds(ledger)) =>
            pc'[p] = "ct_update"]_vars


\* C30 (transaction handle release): whenever no request is in flight the connection has
\* no open transaction; a createTransaction call that has issued its BEGIN TRANSACTION
\* returns by a step that issues COMMIT or ROLLBACK and leaves no transaction open; and
\* whenever requests are in flight, they all return in the end, with no transaction left
\* open (so every BEGIN is followed by a COMMIT or ROLLBACK in the end).
HandleReleased ==
  /\ []((\A p \in Procs: pc[p] = "idle") => ~inTx)
  /\ [][\A p \in Procs:
          (req[p].op = "createTransaction" /\ req[p].transactionId # "" /\ Returns(p)) =>
            (pc[p] \in {"ct_commit", "ct_rollback", "ct_catch"} /\ ~inTx')]_vars
  /\ (\E p \in Procs: pc[p] # "idle") ~> ((\A p \in Procs: pc[p] = "idle") /\ ~inTx)

\* C30 witness: a call that had issued its BEGIN failed at a later statement; every call
\* has returned and no transaction is open.
ReleasedAfterFailure ==
  /\ \A p \in Procs: pc[p] = "idle"
  /\ \E q \in Procs: res[q].kind = "error" /\ req[q].transactionId # ""
  /\ ~inTx



\* C31 (acknowledged writes are durable): once a createAccount call has returned an
\* account, that account exists in every later state, and once an
\* updateAccountByAccountNumber call has returned the account, the account carries the name
\* the call set in every later state (no other call sets a different one), also when the
\* write was issued while a createTransaction call had a database transaction open that
\* ended in ROLLBACK.
AcknowledgedDurable ==
  \A q \in Procs:
    (pc[q] = "idle" /\ res[q].kind = "account") =>
      /\ req[q].op = "createAccount" => accounts[res[q].body.accountNumber] # NoRow
      /\ (req[q].op = "updateAccount" /\ req[q].name # "") =>
           /\ accounts[req[q].accountNumber] # NoRow
           /\ accounts[req[q].accountNumber].name = req[q].name



\* C32 (a call rolls back only its own transaction): a step of a createTransaction call
\* that issues ROLLBACK (after insufficient funds or an invalid type, or in its catch
\* block, also when the call failed before or at its own BEGIN) removes from the ledger
\* only the row that call inserted and changes only the balance that call wrote: no
\* uncommitted write of another request in flight is discarded.
OnlyOwnRollback ==
  [][\A p \in Procs:
       (/\ req[p].op = "createTransaction"
        /\ pc[p] \in {"ct_rollback", "ct_catch"}
        /\ Moves(p)) =>
         /\ \A i \in 1..Len(ledger):
              (\A j \in 1..Len(ledger'): ledger'[j] # ledger[i]) =>
                ("ledger" \in req[p].written /\ ledger[i] = LedgerRow(req[p]))
         /\ \A a \in AcctNums:
              accounts'[a] # accounts[a] =>
                /\ "balance" \in req[p].written
                /\ a = req[p].accountNumber
                /\ accounts[a] # NoRow
                /\ accounts[a].balance = req[p].newBalance]_vars



\* C33 (empty metadata update): no step of an updateAccountByAccountNumber call whose
\* updateData has neither name nor accountType changes any field of any account
\* (updatedTimestamp included), and such a call by the owner returns the account.
EmptyUpdateWritesNothing ==
  [][\A p \in Procs:
       (/\ req[p].op = "updateAccount"
        /\ req[p].name = ""
        /\ req[p].accountType = ""
        /\ pc[p] # "idle"
        /\ Moves(p)) =>
         /\ accounts' = accounts
         /\ (Returns(p) /\ AccountOwner(accounts[req[p].accountNumber]) = req[p].userId) =>
              /\ res'[p].kind = "account"
              /\ res'[p].body = MapAccount(req[p].accountNumber, accounts[req[p].accountNumber])]_vars



AuditIdentity ==
  \A i \in 1..Len(Committed.ledger):
    LET row == Committed.ledger[i] IN
      Committed.accounts[row.accountId] # NoRow =>
        row.userId = AccountOwner(Committed.accounts[row.accountId])



\* The handlers that only read.
ReadOps == {"fetchAccount", "listAccounts", "listTransactions", "fetchTransaction"}

\* C37 (read paths are pure): no step of a fetchAccountByAccountNumber, listAccounts,
\* listAccountTransactions or fetchAccountTransactionByID call, for any caller and with
\* any outcome (data, not-found, forbidden), changes an account or a ledger record, nor
\* any user or the connection's open transaction.
ReadPurity ==
  [][\A p \in Procs:
       (/\ \/ req[p].op \in ReadOps /\ pc[p] # "idle"
           \/ req'[p].op \in ReadOps /\ pc[p] = "idle"
        /\ (Moves(p) \/ req'[p] # req[p] \/ res'[p] # res[p])) =>
         /\ accounts' = accounts
         /\ ledger' = ledger
         /\ UNCHANGED <<users, inTx, saved>>]_vars

\* C37 witness: while a deposit has written its ledger row and balance inside its open
\* transaction, the owner's listAccounts returned the account with the balance written,
\* and the store still is what the deposit wrote.
ListedDuringDeposit ==
  \E p, q \in Procs:
    /\ req[p].op = "createTransaction" /\ pc[p] = "ct_commit"
    /\ inTx
    /\ pc[q] = "idle"
    /\ req[q].op = "listAccounts"
    /\ res[q].kind = "accounts"
    /\ Len(res[q].body.rows) = 1
    /\ res[q].body.rows[1].balance = req[p].newBalance
    /\ accounts["01000001"].balance = req[p].newBalance
    /\ Len(ledger) = 2



\* C38 (non-owner noninterference): what a get account, update account, create
\* transaction, list transactions or get transaction call returns to a caller who does not
\* own the target account is the bare signal forbidden (the account exists) or not-found
\* (it does not), with no record in it; so two such calls with the same arguments return
\* the same, whatever the account's balance, name, accountType, timestamps and ledger
\* records are when each of them runs.
Noninterference ==
  \A p \in Procs:
    (/\ pc[p] = "idle"
     /\ res[p].kind # "none"
     /\ req[p].op \in GatedOps \cup {"updateAccount"}
     /\ req[p].userId # AccountOwner(accounts[req[p].accountNumber])) =>
      /\ res[p] = Respond(req[p], Result(IF accounts[req[p].accountNumber] = NoRow
                                           THEN "not-found" ELSE "forbidden"))
      /\ \A q \in Procs:
           (/\ pc[q] = "idle"
            /\ res[q].kind # "none"
            /\ req[q].op = req[p].op
            /\ req[q].userId = req[p].userId
            /\ req[q].accountNumber = req[p].accountNumber) =>
             res[q] = res[p]

\* C38 witness: usr-b's withdrawal from usr-a's account was answered forbidden once when
\* the account held 100.00 under the name spare, and again after a deposit had changed its
\* balance, timestamp and ledger.
RefusedAlikeAcrossStores ==
  \E p, q \in Procs:
    /\ p # q
    /\ pc[p] = "idle" /\ pc[q] = "idle"
    /\ req[p].op = "createTransaction" /\ req[p].userId = "usr-b"
    /\ req[q].op = "createTransaction" /\ req[q].userId = "usr-a"
    /\ req[p].accountNumber = "01000001"
    /\ res[p].kind = "forbidden" /\ res[p].status = 403
    /\ res[q].kind = "transaction"
    /\ accounts["01000001"].balance = 10001
    /\ accounts["01000001"].name = "spare"
    /\ Len(ledger) = 2

====
